---- MODULE Spec2Model ----
(***************************************************************************)
(* A model of poretools/Fast5File.py: the Fast5FileSet enumerator with its *)
(* archive staging (TarballFileIterator) and the Fast5File handle.         *)
(*                                                                         *)
(* Conventions.  A Python value that may be None is a sequence of length   *)
(* at most one: None is <<>>, the value v is <<v>>.  A file name is a      *)
(* sequence of one-character strings, so that os.path.basename, endswith   *)
(* and startswith are computed on the characters.  A call's outcome is a   *)
(* record [kind, exc, val]: kind is "return", "raise" or "exit"            *)
(* (sys.exit), exc names the exception, val is the returned value.         *)
(***************************************************************************)
EXTENDS Integers, Sequences, FiniteSets, TLC

\* ------------------------------------------------------------- bounds

\* Longest explicit list of paths handed to Fast5FileSet.
MaxFiles == 2
\* Most entries in the archive.
MaxEntries == 2
\* Largest basecall group index handed to the constructors.
MaxGroup == 1
\* Most rows in an 'Events' table.
MaxEvents == 2
\* Largest error rate a FASTQ record estimates (in steps the model counts).
MaxRate == 1

\* get_script_name is not called on a handle that has run _get_metadata this often.
MaxLookups == 2

\* ------------------------------------------------------ Python values

None == <<>>

Some(v) == <<v>>

Return(v) == [kind |-> "return", exc |-> "", val |-> v]

Raise(e) == [kind |-> "raise", exc |-> e, val |-> None]

\* sys.exit(): SystemExit is not an Exception, no `except Exception` stops it.
Exit == [kind |-> "exit", exc |-> "SystemExit", val |-> None]

NoCall == [kind |-> "none", exc |-> "", val |-> None]

\* ------------------------------------------------------ program constants

FAST5SET_FILELIST == 0

FAST5SET_DIRECTORY == 1

FAST5SET_SINGLEFILE == 2

FAST5SET_TARBALL == 3

PORETOOLS_TMPDIR == <<".", "p", "o", "r", "e", "t", "o", "o", "l", "s", "_", "t", "m", "p">>

DOT_FAST5 == <<".", "f", "a", "s", "t", "5">>

SEP == <<"/">>

\* ------------------------------------------------------ string helpers

\* Position of the last "/" of p, 0 when it has none.
LastSep(p) ==
    LET S == {i \in 1..Len(p) : p[i] = "/"}
    IN IF S = {} THEN 0 ELSE CHOOSE i \in S : \A j \in S : j <= i

\* os.path.basename
basename(p) == SubSeq(p, LastSep(p) + 1, Len(p))

\* str.endswith
endswith(s, suf) ==
    Len(s) >= Len(suf) /\ SubSeq(s, Len(s) - Len(suf) + 1, Len(s)) = suf

\* str.startswith
startswith(s, pre) == Len(s) >= Len(pre) /\ SubSeq(s, 1, Len(pre)) = pre

\* os.path.join(a, b) for a relative b
join(a, b) == a \o SEP \o b

\* ------------------------------------------------------ path templates

Digit == <<"0", "1", "2", "3", "4", "5", "6", "7", "8", "9">>

\* What the conversion 03d writes for 0 <= n <= 999: three decimal digits.
Fmt03d(n) ==
    <<Digit[((n \div 100) % 10) + 1], Digit[((n \div 10) % 10) + 1], Digit[(n % 10) + 1]>>

\* A path template is a sequence of tokens; the token hole is replaced by the digits.
RECURSIVE Subst(_, _, _)
Subst(tpl, hole, n) ==
    IF tpl = <<>>
    THEN <<>>
    ELSE (IF Head(tpl) = hole THEN Fmt03d(n) ELSE <<Head(tpl)>>) \o Subst(Tail(tpl), hole, n)

Holes(tpl, hole) == Cardinality({i \in DOMAIN tpl : tpl[i] = hole})

\* tpl % n with one integer argument: the template has to hold exactly one
\* conversion; with none Python raises TypeError (not all arguments converted),
\* with more TypeError (not enough arguments).  A "{:03d}" is plain text to %.
PercentFormat(tpl, n) ==
    IF Holes(tpl, "%03d") = 1 THEN Return(Subst(tpl, "%03d", n)) ELSE Raise("TypeError")

\* tpl.format(n): every "{:03d}" is replaced; a template without one is returned as is.
StrFormat(tpl, n) == Subst(tpl, "{:03d}", n)

Strands == {"template", "complement", "twodirections", "pre_basecalled"}

Versions == {"closed", "r9rnn", "metrichor1.16", "classic", "prebasecalled"}

PRE_BASECALLED_PATH == <<"/Analyses/EventDetection_000/Reads/">>

\* The module-level table: version -> strand -> path template (a missing key is a
\* strand outside the DOMAIN).
fastq_paths ==
    [v \in Versions |->
        CASE v = "closed" -> <<>>
          [] v = "r9rnn" ->
                ("template" :> <<"/Analyses/", "Basecall_RNN_1D_", "{:03d}", "/BaseCalled_template">>)
          [] v = "metrichor1.16" ->
                ("template" :> <<"/Analyses/", "Basecall_1D_", "{:03d}", "/BaseCalled_template">>)
                @@ ("complement" :> <<"/Analyses/", "Basecall_1D_", "{:03d}", "/BaseCalled_complement">>)
                @@ ("twodirections" :> <<"/Analyses/", "Basecall_2D_", "{:03d}", "/BaseCalled_2D">>)
                @@ ("pre_basecalled" :> PRE_BASECALLED_PATH)
          [] v = "classic" ->
                ("template" :> <<"/Analyses/", "Basecall_2D_", "{:03d}", "/BaseCalled_template">>)
                @@ ("complement" :> <<"/Analyses/", "Basecall_2D_", "{:03d}", "/BaseCalled_complement">>)
                @@ ("twodirections" :> <<"/Analyses/", "Basecall_2D_", "{:03d}", "/BaseCalled_2D">>)
                @@ ("pre_basecalled" :> PRE_BASECALLED_PATH)
          [] v = "prebasecalled" ->
                ("pre_basecalled" :> PRE_BASECALLED_PATH)]

\* fastq_paths[version][strand]: the template, or KeyError.
PathOf(version, strand) ==
    IF strand \in DOMAIN fastq_paths[version]
    THEN Return(fastq_paths[version][strand])
    ELSE Raise("KeyError")

\* ------------------------------------------------------ the HDF5 container

(* A container is what h5py shows of one file: whether h5py.File opens it,     *)
(* whether reading its object headers fails (corrupt), and a function from     *)
(* the paths that exist to their nodes.  A node holds the 'Fastq' text of a    *)
(* basecall group (reduced to the error rate its record estimates), its        *)
(* 'Events' table (the number of rows and the table's timing attributes),      *)
(* its attributes and the names of its children.                               *)

NoAttrs ==
    [duration |-> None, start_time |-> None, exp_start_time |-> None,
     sample_frequency |-> None, exp_script_name |-> None]

Node(fastq, events, attrs, keys) ==
    [fastq |-> fastq, events |-> events, attrs |-> attrs, keys |-> keys]

Group == Node(None, None, NoAttrs, <<>>)

BasecallKinds == {"Basecall_2D_", "Basecall_1D_", "Basecall_RNN_1D_"}

\* The group index under which the containers of the model store their basecalls.
StoredGroup == 0

AnalysisPath(kind, leaf) == <<"/Analyses/", kind>> \o Fmt03d(StoredGroup) \o <<leaf>>

RAW_READS == <<"Raw/Reads">>

\* 'Raw/Reads/%s' % name
RawReadPath(name) == <<"Raw/Reads", "/", name>>

ReadNames == <<"read_1", "read_2", "read_3", "read_4">>

\* The nodes of one sub-tree each; Nodes puts them together.
TemplateNodes(d) ==
    [p \in {AnalysisPath(k, "/BaseCalled_template") : k \in d.basecalls} |->
        Node(d.fq["template"], d.tev, NoAttrs, <<>>)]

ComplementNodes(d) ==
    [p \in {AnalysisPath(k, "/BaseCalled_complement") :
                k \in IF d.fq["complement"] = None /\ d.cev = None
                      THEN {} ELSE d.basecalls \ {"Basecall_RNN_1D_"}} |->
        Node(d.fq["complement"], d.cev, NoAttrs, <<>>)]

TwoDNodes(d) ==
    [p \in IF d.fq["twodirections"] = None
           THEN {} ELSE {AnalysisPath("Basecall_2D_", "/BaseCalled_2D")} |->
        Node(d.fq["twodirections"], None, NoAttrs, <<>>)]

PreNodes(d) ==
    IF d.pre = None
    THEN <<>>
    ELSE LET reads == d.pre[1]
         IN (PRE_BASECALLED_PATH :>
                Node(None, None, NoAttrs, [i \in DOMAIN reads |-> ReadNames[i]]))
            @@ [p \in {PRE_BASECALLED_PATH \o <<ReadNames[i]>> : i \in DOMAIN reads} |->
                  LET i == CHOOSE j \in DOMAIN reads : p = PRE_BASECALLED_PATH \o <<ReadNames[j]>>
                  IN Node(None, Some([rows |-> reads[i], attrs |-> NoAttrs]), NoAttrs, <<>>)]

RawNodes(d) ==
    IF d.raw = None
    THEN <<>>
    ELSE LET reads == d.raw[1]
         IN (RAW_READS :> Node(None, None, NoAttrs, [i \in DOMAIN reads |-> ReadNames[i]]))
            @@ [p \in {RawReadPath(ReadNames[i]) : i \in DOMAIN reads} |->
                  LET i == CHOOSE j \in DOMAIN reads : p = RawReadPath(ReadNames[j])
                  IN Node(None, None, reads[i], <<>>)]

KeyNodes(d) ==
    IF d.key = None
    THEN <<>>
    ELSE (<<d.key[1]>> :> Group)
         @@ (<<d.key[1], "/", "tracking_id">> :>
                Node(None, None, [NoAttrs EXCEPT !.exp_start_time = d.exp,
                                                 !.exp_script_name = Some("script")], <<>>))
         @@ (<<d.key[1], "/", "context_tags">> :>
                Node(None, None, [NoAttrs EXCEPT !.sample_frequency = d.freq], <<>>))

Nodes(d) ==
    TemplateNodes(d) @@ ComplementNodes(d) @@ TwoDNodes(d) @@ PreNodes(d)
    @@ RawNodes(d) @@ KeyNodes(d)

Container(openable, corrupt, d) ==
    [openable |-> openable, corrupt |-> corrupt, nodes |-> Nodes(d)]

SeqStrands == {"template", "complement", "twodirections"}

\* The description of a container that holds nothing.
Bare ==
    [basecalls |-> {}, fq |-> [s \in SeqStrands |-> None], tev |-> None, cev |-> None,
     pre |-> None, raw |-> None, key |-> None, exp |-> None, freq |-> None]

\* A file h5py cannot open.
Unreadable == Container(FALSE, FALSE, Bare)

\* A file h5py opens and whose object headers it cannot read.
Corrupt == Container(TRUE, TRUE, Bare)

\* ------------------------------------------------------ Fast5File: construction

\* The outcome of a method: what the call did, and the object after it.
Ok(self, v) == [kind |-> "return", exc |-> "", val |-> v, self |-> self]

Err(self, e) == [kind |-> "raise", exc |-> e, val |-> None, self |-> self]

\* hdf_internal_error and sys.exit.
Die(self) == [kind |-> "exit", exc |-> "SystemExit", val |-> None, self |-> self]

\* self.hdf5file[path].  open() sets the attribute hdf5file only when h5py.File
\* succeeded, so on a closed handle the attribute lookup raises AttributeError.
H5Index(self, c, path) ==
    IF ~self.is_open THEN Raise("AttributeError")
    ELSE IF c.corrupt THEN Raise("OSError")
    ELSE IF path \in DOMAIN c.nodes THEN Return(c.nodes[path])
    ELSE Raise("KeyError")

\* self.hdf5file.get(path): None for a path that does not exist.
H5Get(self, c, path) ==
    IF ~self.is_open THEN Raise("AttributeError")
    ELSE IF c.corrupt THEN Raise("OSError")
    ELSE IF path \in DOMAIN c.nodes THEN Return(Some(path))
    ELSE Return(None)

\* One probe of guess_version: the path is formatted with %, then looked up.
Probe(self, c, kind) ==
    LET path == PercentFormat(<<"/Analyses/", kind, "%03d", "/BaseCalled_template">>, self.group)
    IN IF path.kind = "raise" THEN path ELSE H5Index(self, c, path.val)

guess_version_unordered(self, c) ==
    LET p2d == Probe(self, c, "Basecall_2D_")
        p1d == Probe(self, c, "Basecall_1D_")
        prnn == Probe(self, c, "Basecall_RNN_1D_")
    IN IF p1d.kind = "return" THEN Return("metrichor1.16")
       ELSE IF p1d.exc # "KeyError" THEN p1d
       ELSE IF p2d.kind = "return" THEN Return("classic")
       ELSE IF p2d.exc # "KeyError" THEN p2d
       ELSE IF prnn.kind = "return" THEN Return("r9rnn")
       ELSE IF prnn.exc # "KeyError" THEN prnn
       ELSE Return("prebasecalled")

\* Each probe is a try whose `except KeyError: pass` lets any other error out.
guess_version(self, c) ==
    LET p2d == Probe(self, c, "Basecall_2D_")
        p1d == Probe(self, c, "Basecall_1D_")
        prnn == Probe(self, c, "Basecall_RNN_1D_")
    IN IF p2d.kind = "return" THEN Return("classic")
       ELSE IF p2d.exc # "KeyError" THEN p2d
       ELSE IF p1d.kind = "return" THEN Return("metrichor1.16")
       ELSE IF p1d.exc # "KeyError" THEN p1d
       ELSE IF prnn.kind = "return" THEN Return("r9rnn")
       ELSE IF prnn.exc # "KeyError" THEN prnn
       ELSE Return("prebasecalled")

\* Fast5File.open
open(c) == c.openable

\* The attributes __init__ sets.  keyinfo and the three event lists are not
\* attributes yet: keyinfo.set records that, and no accessor reads an event list
\* before its extraction has assigned it.
NewFast5File(filename, group, is_open, version) ==
    [filename |-> filename, group |-> group, is_open |-> is_open, version |-> version,
     fastas |-> [s \in Strands |-> None], fastqs |-> [s \in Strands |-> None],
     have_fastqs |-> FALSE, have_fastas |-> FALSE, have_templates |-> FALSE,
     have_complements |-> FALSE, have_pre_basecalled |-> FALSE,
     have_metadata |-> FALSE, have_metdata |-> FALSE,
     keyinfo |-> [set |-> FALSE, node |-> None],
     metadata_lookups |-> 0,    \* not a field of the class: the runs of _get_metadata
     template_events |-> <<>>, complement_events |-> <<>>,
     pre_basecalled_events |-> <<>>]

\* Fast5File(filename, group) on a file whose container is c: the new handle, or
\* the error guess_version lets out.
Fast5File__init__(filename, group, c) ==
    IF open(c)
    THEN LET v == guess_version(NewFast5File(filename, group, TRUE, "closed"), c)
         IN IF v.kind = "return"
            THEN Return(NewFast5File(filename, group, TRUE, v.val))
            ELSE v
    ELSE Return(NewFast5File(filename, group, FALSE, "closed"))

\* ------------------------------------------------------ the file system

A_FAST5 == <<"a", ".", "f", "a", "s", "t", "5">>

B_FAST5 == <<"b", ".", "f", "a", "s", "t", "5">>

B_TXT == <<"b", ".", "t", "x", "t">>

HIDDEN_FAST5 == <<".", "h", ".", "f", "a", "s", "t", "5">>

\* An entry in a sub-directory of the archive whose directory name is hidden.
SUB_C_FAST5 == <<".", "s", "/", "c", ".", "f", "a", "s", "t", "5">>

EntryNames == {A_FAST5, B_FAST5, B_TXT, HIDDEN_FAST5, SUB_C_FAST5}

\* The paths a caller hands over: a directory, a tar archive, a plain file and
\* a path that does not exist.
DirPath == <<"r", "u", "n">>

TarPath == <<"r", ".", "t", "a", "r">>

FilePath == <<"x", ".", "f", "a", "s", "t", "5">>

MissingPath == <<"n", "o">>

Paths == {DirPath, TarPath, FilePath, MissingPath}

\* os.path.isdir
isdir(f) == f = DirPath

\* tarfile.is_tarfile: True for an archive, False for another file it can read,
\* and the OSError of open() (FileNotFoundError) for a path that does not exist.
is_tarfile(f) ==
    IF f = MissingPath THEN Raise("FileNotFoundError") ELSE Return(f = TarPath)

\* A directory: its files and its sub-directories, in os.walk's order.
Dir(files, dirs) == [files |-> files, dirs |-> dirs]

Sub(name, tree) == [name |-> name, tree |-> tree]

EmptyDir == Dir(<<>>, <<>>)

FlatDir == Dir(<<A_FAST5, B_TXT>>, <<>>)

TwoSubDirs ==
    Dir(<<>>, <<Sub(<<"0">>, Dir(<<A_FAST5>>, <<>>)), Sub(<<"1">>, Dir(<<B_FAST5>>, <<>>))>>)

DeepDir ==
    Dir(<<B_TXT>>, <<Sub(<<"0">>, Dir(<<>>, <<Sub(<<"p">>, Dir(<<A_FAST5>>, <<>>))>>))>>)

HollowDir == Dir(<<>>, <<Sub(<<"0">>, EmptyDir)>>)

Trees == {EmptyDir, FlatDir, TwoSubDirs, DeepDir, HollowDir}

\* The comprehension over os.walk(f): for each directory, top down, dirpath +
\* os.path.sep + name for each of its files; no filter on the name.
RECURSIVE Walk(_, _)
RECURSIVE WalkDirs(_, _)
Walk(dirpath, tree) ==
    [i \in DOMAIN tree.files |-> dirpath \o SEP \o tree.files[i]]
    \o WalkDirs(dirpath, tree.dirs)

WalkDirs(dirpath, dirs) ==
    IF dirs = <<>>
    THEN <<>>
    ELSE Walk(join(dirpath, Head(dirs).name), Head(dirs).tree) \o WalkDirs(dirpath, Tail(dirs))

\* Every file of the tree, at any depth.
RECURSIVE AllFiles(_, _)
AllFiles(dirpath, tree) ==
    {dirpath \o SEP \o tree.files[i] : i \in DOMAIN tree.files}
    \cup UNION {AllFiles(join(dirpath, tree.dirs[j].name), tree.dirs[j].tree) : j \in DOMAIN tree.dirs}

\* The sequences over S of length at most n.
SeqsUpTo(S, n) == UNION {[1..k -> S] : k \in 0..n}

\* ------------------------------------------------------ state

VARIABLES
    \* Fast5FileSet and its surroundings
    setpc,        \* "off" | "new" | "ready" | "failed" (the constructor raised) | "exited"
    fileset,      \* the list handed to the constructor
    fset,         \* the Fast5FileSet object
    tmpdir,       \* the directory PORETOOLS_TMPDIR: whether it exists, the paths in it
    tarEntries,   \* the entry names of the archive at TarPath, in archive order
    dirTree,      \* the directory at DirPath
    produced,     \* the handles __next__ has returned, in order
    signalled,    \* whether __next__ has raised StopIteration
    setret,       \* the outcome of the last call on the Fast5FileSet
    \* Fast5File and its surroundings
    pc,           \* "off" | "run" | "exited"
    container,    \* the container behind the handle
    handle,       \* the Fast5File object
    ret,          \* the last call on the handle: its name and its outcome
    \* a second Fast5FileSet of the same process
    peer          \* its position, the object, whether its __next__ has raised
                  \* StopIteration, the outcome of the last call on it

setVars == <<setpc, fileset, fset, tmpdir, tarEntries, dirTree, produced, signalled, setret>>

fileVars == <<pc, container, handle, ret>>

peerVars == <<peer>>

vars == <<setVars, fileVars, peerVars>>

\* ------------------------------------------------------ Fast5FileSet

NoIter == [kind |-> "none", seq |-> <<>>, pos |-> 0]

\* iter(list): the list and the index of the next item.
ListIter(seq) == [kind |-> "list", seq |-> seq, pos |-> 1]

\* TarballFileIterator(f): the archive is opened, nothing is read yet.
TarballFileIterator(f) == [kind |-> "tarball", seq |-> <<>>, pos |-> 1]

\* What __init__ assigns before it calls _extract_fast5_files.
NewFast5FileSet(fs, group) ==
    [fileset |-> fs, set_type |-> None, num_files_in_set |-> None, group |-> group,
     files |-> NoIter]

Dir0 == [exists |-> FALSE, files |-> {}]

\* os.mkdir after the rmtree of a directory that was there.
FreshDir == [exists |-> TRUE, files |-> {}]

_extract_tarball_keep(self, tree, tmp) ==
    LET f == self.fileset[1]
    IN [out |-> Return(None), tmp |-> [tmp EXCEPT !.exists = TRUE],
        self |-> [self EXCEPT !.files = TarballFileIterator(f),
                              !.num_files_in_set = None,
                              !.set_type = Some(FAST5SET_TARBALL)]]

\* The archive branch: a directory left over is removed, a new one made.
_extract_tarball(self, tree, tmp) ==
    LET f == self.fileset[1]
    IN [out |-> Return(None), tmp |-> FreshDir,
        self |-> [self EXCEPT !.files = TarballFileIterator(f),
                              !.num_files_in_set = None,
                              !.set_type = Some(FAST5SET_TARBALL)]]

\* Fast5FileSet._extract_fast5_files: the object and the staging directory after
\* it, and how it ended.
_extract_fast5_files(self, tree, tmp) ==
    IF Len(self.fileset) > 1
    THEN [out |-> Return(None), tmp |-> tmp,
          self |-> [self EXCEPT !.files = ListIter(self.fileset),
                                !.num_files_in_set = Some(Len(self.fileset)),
                                !.set_type = Some(FAST5SET_FILELIST)]]
    ELSE IF Len(self.fileset) = 1
    THEN LET f == self.fileset[1]
         IN IF isdir(f)
            THEN LET files == Walk(f, tree)
                 IN [out |-> Return(None), tmp |-> tmp,
                     self |-> [self EXCEPT !.files = ListIter(files),
                                           !.num_files_in_set = Some(Len(files)),
                                           !.set_type = Some(FAST5SET_DIRECTORY)]]
            ELSE IF is_tarfile(f).kind = "raise"
            THEN [out |-> is_tarfile(f), tmp |-> tmp, self |-> self]
            ELSE IF is_tarfile(f).val
            THEN _extract_tarball(self, tree, tmp)
            ELSE [out |-> Return(None), tmp |-> tmp,
                  self |-> [self EXCEPT !.files = ListIter(<<f>>),
                                        !.num_files_in_set = Some(1),
                                        !.set_type = Some(FAST5SET_SINGLEFILE)]]
    ELSE [out |-> Exit, tmp |-> tmp, self |-> self]

\* TarballFileIterator._fast5_filename_filter
_fast5_filename_filter(filename) ==
    endswith(basename(filename), DOT_FAST5) /\ ~startswith(basename(filename), <<".">>)

\* next(self._tarfile).  tarfile.TarFile has the method next() and __iter__, and
\* no __next__: the built-in next() raises TypeError on it, whatever the archive
\* holds.
NextOfTarFile == Raise("TypeError")

\* TarballFileIterator.__next__: its first statement raises, so no entry is
\* filtered or extracted (lines 184-189 are never reached).
TarballFileIterator__next__(files, entries, tmp) ==
    [out |-> NextOfTarFile, files |-> files, tmp |-> tmp]

\* next(self.files)
NextOfFiles(files, entries, tmp) ==
    IF files.kind = "tarball"
    THEN TarballFileIterator__next__(files, entries, tmp)
    ELSE IF files.pos <= Len(files.seq)
    THEN [out |-> Return(files.seq[files.pos]), tmp |-> tmp,
          files |-> [files EXCEPT !.pos = @ + 1]]
    ELSE [out |-> Raise("StopIteration"), files |-> files, tmp |-> tmp]

CleanupKeepsDir(self, tmp) == [out |-> Raise("StopIteration"), tmp |-> tmp]

\* The except branch of Fast5FileSet.__next__: shutil.rmtree raises
\* FileNotFoundError for a directory that is not there, and that error leaves
\* the handler in place of StopIteration.
Cleanup(self, tmp) ==
    IF self.set_type = Some(FAST5SET_TARBALL)
    THEN IF tmp.exists
         THEN [out |-> Raise("StopIteration"), tmp |-> Dir0]
         ELSE [out |-> Raise("FileNotFoundError"), tmp |-> tmp]
    ELSE [out |-> Raise("StopIteration"), tmp |-> tmp]

\* Fast5FileSet.__next__ when the file behind the next path holds container c.
Fast5FileSet__next__(self, entries, tmp, c) ==
    LET n == NextOfFiles(self.files, entries, tmp)
        after == [self EXCEPT !.files = n.files]
        made == IF n.out.kind = "return"
                THEN Fast5File__init__(n.out.val, self.group, c)
                ELSE n.out
    IN IF made.kind = "return"
       THEN [out |-> made, tmp |-> n.tmp, self |-> after]
       ELSE [out |-> Cleanup(after, n.tmp).out, tmp |-> Cleanup(after, n.tmp).tmp,
             self |-> after]

\* TarballFileIterator.__len__: the archive is opened again and its names counted.
TarballFileIterator__len__(entries) == Len(entries)

\* Fast5FileSet.get_num_files
get_num_files(self, entries) ==
    LET after == IF self.num_files_in_set = None /\ self.set_type = Some(FAST5SET_TARBALL)
                 THEN [self EXCEPT !.num_files_in_set = Some(TarballFileIterator__len__(entries))]
                 ELSE self
    IN [out |-> Return(after.num_files_in_set), self |-> after]

\* ------------------------------------------------------ Fast5FileSet: the actions

Plain(basecalls) == Container(TRUE, FALSE, [Bare EXCEPT !.basecalls = basecalls])

\* What the files behind the enumerated paths may hold.
SetContainers == {Unreadable, Corrupt, Plain({"Basecall_2D_"}), Plain({})}

\* A staging directory an earlier run left behind.
StaleDir == [exists |-> TRUE, files |-> {join(PORETOOLS_TMPDIR, A_FAST5)}]

NoRet == [op |-> "none", kind |-> "none", exc |-> "", val |-> None]

\* No second Fast5FileSet.
NoPeer ==
    [pc |-> "off", self |-> NewFast5FileSet(<<>>, 0), signalled |-> FALSE, ret |-> NoCall]

FileOff ==
    /\ pc = "off"
    /\ container = Unreadable
    /\ handle = NewFast5File(<<>>, 0, FALSE, "closed")
    /\ ret = NoRet

InitSet ==
    /\ setpc = "new"
    /\ fileset \in SeqsUpTo(Paths, MaxFiles)
    /\ dirTree \in (IF fileset = <<DirPath>> THEN Trees ELSE {EmptyDir})
    /\ tarEntries \in (IF fileset = <<TarPath>> THEN SeqsUpTo(EntryNames, MaxEntries) ELSE {<<>>})
    /\ tmpdir \in {Dir0, StaleDir}
    /\ \E g \in 0..MaxGroup : fset = NewFast5FileSet(fileset, g)
    /\ produced = <<>>
    /\ signalled = FALSE
    /\ setret = NoCall
    /\ FileOff
    /\ peer = NoPeer

\* Fast5FileSet(fileset, group): the classification, once.
Fast5FileSet__init__ ==
    /\ setpc = "new"
    /\ LET r == _extract_fast5_files(fset, dirTree, tmpdir)
       IN /\ fset' = r.self
          /\ tmpdir' = r.tmp
          /\ setret' = r.out
          /\ setpc' = CASE r.out.kind = "return" -> "ready"
                        [] r.out.kind = "raise" -> "failed"
                        [] OTHER -> "exited"
    /\ UNCHANGED <<fileset, tarEntries, dirTree, produced, signalled, fileVars, peerVars>>

\* next(fast5fileset)
NextFile ==
    /\ setpc = "ready"
    /\ \E c \in SetContainers :
          LET r == Fast5FileSet__next__(fset, tarEntries, tmpdir, c)
          IN /\ fset' = r.self
             /\ tmpdir' = r.tmp
             /\ setret' = r.out
             /\ produced' = IF r.out.kind = "return" THEN Append(produced, r.out.val) ELSE produced
             /\ signalled' = (signalled \/ r.out.exc = "StopIteration")
    /\ UNCHANGED <<setpc, fileset, tarEntries, dirTree, fileVars, peerVars>>

\* fast5fileset.get_num_files()
GetNumFiles ==
    /\ setpc = "ready"
    /\ LET r == get_num_files(fset, tarEntries)
       IN /\ fset' = r.self
          /\ setret' = r.out
    /\ UNCHANGED <<setpc, fileset, tmpdir, tarEntries, dirTree, produced, signalled, fileVars,
                    peerVars>>

NextSet == Fast5FileSet__init__ \/ NextFile \/ GetNumFiles

SpecSet == InitSet /\ [][NextSet]_vars

\* ------------------------------------------------------ claims on Fast5FileSet

IsArchiveSet == setpc = "ready" /\ fset.set_type = Some(FAST5SET_TARBALL)

\* C1: for an archive source the staging directory exists in every state from
\* the construction of the Fast5FileSet until __next__ has first raised
\* StopIteration, and is absent in every state after that; no other call, and
\* no pause between calls, removes it.
C1_StagingDirLifetime == IsArchiveSet => (tmpdir.exists <=> ~signalled)

\* An archive source whose __next__ has signalled exhaustion and removed the directory.
C1_Witness == IsArchiveSet /\ signalled /\ ~tmpdir.exists /\ setret = Raise("StopIteration")

IsFast5Entry(name) == _fast5_filename_filter(name)

\* The staged paths the claim expects of an archive: one per entry whose base
\* name ends with .fast5 and does not start with a dot, in archive order.
ExpectedStaged(entries) ==
    LET kept == SelectSeq(entries, IsFast5Entry)
    IN [i \in DOMAIN kept |-> join(PORETOOLS_TMPDIR, kept[i])]

\* C2: draining an archive Fast5FileSet produces one handle per archive entry
\* that passes the name filter and for no other entry, in archive order, with
\* the staging directory joined with the entry name as its path; an entry is
\* in the staging directory only once it has been requested.
C2_ArchiveDrain ==
    IsArchiveSet =>
        LET want == ExpectedStaged(tarEntries)
            n == Len(produced)
        IN /\ n <= Len(want)
           /\ \A i \in 1..n : produced[i].filename = want[i]
           /\ signalled => n = Len(want)
           /\ ~signalled => tmpdir.files = {want[i] : i \in 1..n}

\* C3: the input is classified once, by the number of its elements, then by
\* what the one element is: a list of more than one path, a directory with
\* every file below it, an archive, any other single path as a single file;
\* no element ends the process; the kind found stays.
C3_Classification ==
    setpc \notin {"off", "new"} =>
        IF Len(fileset) > 1
        THEN /\ setpc = "ready"
             /\ fset.set_type = Some(FAST5SET_FILELIST)
             /\ fset.files.seq = fileset
             /\ fset.num_files_in_set = Some(Len(fileset))
        ELSE IF Len(fileset) = 1
        THEN IF isdir(fileset[1])
             THEN /\ setpc = "ready"
                  /\ fset.set_type = Some(FAST5SET_DIRECTORY)
                  /\ {fset.files.seq[i] : i \in DOMAIN fset.files.seq} = AllFiles(fileset[1], dirTree)
                  /\ Len(fset.files.seq) = Cardinality(AllFiles(fileset[1], dirTree))
                  /\ fset.num_files_in_set = Some(Len(fset.files.seq))
             ELSE IF fileset[1] = TarPath
             THEN /\ setpc = "ready"
                  /\ fset.set_type = Some(FAST5SET_TARBALL)
             ELSE /\ setpc = "ready"
                  /\ fset.set_type = Some(FAST5SET_SINGLEFILE)
                  /\ fset.files.seq = fileset
                  /\ fset.num_files_in_set = Some(1)
        ELSE setpc = "exited"

\* C11: get_num_files on an archive source returns None as long as __next__
\* has not signalled exhaustion and, once it has, the number of entries that
\* were extracted (one per handle produced); on a list, a directory or a
\* single file it returns the count fixed at construction.
C11_NumFiles ==
    [][GetNumFiles =>
         IF fset.set_type = Some(FAST5SET_TARBALL)
         THEN IF signalled
              THEN setret' = Return(Some(Len(produced)))
              ELSE setret' = Return(None)
         ELSE /\ setret' = Return(fset.num_files_in_set)
              /\ fset.num_files_in_set = Some(Len(fset.files.seq))]_vars

\* C13: on an archive source every __next__ called after exhaustion has been
\* signalled (the staging directory being gone) signals exhaustion again and
\* raises nothing else.
C13_CleanupIdempotent ==
    [][(NextFile /\ IsArchiveSet /\ signalled /\ ~tmpdir.exists)
          => setret' = Raise("StopIteration")]_vars


\* ------------------------------------------------------ two Fast5FileSets

(* Two Fast5FileSet objects of one process, both on the archive: PORETOOLS_TMPDIR *)
(* is a module constant, so both work on the one directory tmpdir.  The calls on  *)
(* the two objects interleave in any order.                                        *)

InitShared ==
    /\ setpc = "new"
    /\ fileset = <<TarPath>>
    /\ dirTree = EmptyDir
    /\ tarEntries \in SeqsUpTo(EntryNames, MaxEntries)
    /\ tmpdir \in {Dir0, StaleDir}
    /\ \E g \in 0..MaxGroup : fset = NewFast5FileSet(fileset, g)
    /\ produced = <<>>
    /\ signalled = FALSE
    /\ setret = NoCall
    /\ FileOff
    /\ \E g \in 0..MaxGroup :
          peer = [pc |-> "new", self |-> NewFast5FileSet(<<TarPath>>, g),
                  signalled |-> FALSE, ret |-> NoCall]

\* Fast5FileSet(fileset, group) for the second object.
PeerInit ==
    /\ peer.pc = "new"
    /\ LET r == _extract_fast5_files(peer.self, dirTree, tmpdir)
       IN /\ tmpdir' = r.tmp
          /\ peer' = [peer EXCEPT !.self = r.self,
                                  !.ret = r.out,
                                  !.pc = CASE r.out.kind = "return" -> "ready"
                                           [] r.out.kind = "raise" -> "failed"
                                           [] OTHER -> "exited"]
    /\ UNCHANGED <<setpc, fileset, fset, tarEntries, dirTree, produced, signalled, setret,
                   fileVars>>

\* next() on the second object.
PeerNext ==
    /\ peer.pc = "ready"
    /\ \E c \in SetContainers :
          LET r == Fast5FileSet__next__(peer.self, tarEntries, tmpdir, c)
          IN /\ tmpdir' = r.tmp
             /\ peer' = [peer EXCEPT !.self = r.self,
                                     !.ret = r.out,
                                     !.signalled = (@ \/ r.out.exc = "StopIteration")]
    /\ UNCHANGED <<setpc, fileset, fset, tarEntries, dirTree, produced, signalled, setret,
                   fileVars>>

NextShared == Fast5FileSet__init__ \/ NextFile \/ PeerInit \/ PeerNext

SpecShared == InitShared /\ [][NextShared]_vars

\* An archive enumerator that is constructed and has not signalled exhaustion.
FirstActive == IsArchiveSet /\ ~signalled

PeerActive == peer.pc = "ready" /\ peer.self.set_type = Some(FAST5SET_TARBALL) /\ ~peer.signalled

_get_metadata(self, c) ==
    LET Pick(first, second) ==
            IF first.kind = "return"
            THEN [self EXCEPT !.keyinfo = [set |-> TRUE, node |-> Some(<<"/UniqueGlobalKey">>)],
                              !.metadata_lookups = @ + 1]
            ELSE IF second.kind = "return"
            THEN [self EXCEPT !.keyinfo = [set |-> TRUE, node |-> Some(<<"/Key">>)],
                              !.metadata_lookups = @ + 1]
            ELSE [self EXCEPT !.keyinfo = [set |-> TRUE, node |-> None],
                              !.metadata_lookups = @ + 1]
    IN Pick(H5Index(self, c, <<"/UniqueGlobalKey">>), H5Index(self, c, <<"/Key">>))

\* `if self.have_metadata is False: self._get_metadata(); self.have_metadata = True`
LoadMetadata(self, c) ==
    IF self.have_metadata = FALSE
    THEN [_get_metadata(self, c) EXCEPT !.have_metadata = TRUE]
    ELSE self

\* self.keyinfo[group].attrs[attr]: None is not subscriptable (TypeError), a
\* group or an attribute that is not there is a KeyError.
KeyAttr(self, c, group, attr) ==
    IF ~self.keyinfo.set THEN Raise("AttributeError")
    ELSE IF self.keyinfo.node = None THEN Raise("TypeError")
    ELSE LET path == self.keyinfo.node[1] \o <<"/", group>>
         IN IF path \notin DOMAIN c.nodes THEN Raise("KeyError")
            ELSE IF c.nodes[path].attrs[attr] = None THEN Raise("KeyError")
            ELSE Return(c.nodes[path].attrs[attr][1])

\* Fast5File.get_exp_start_time, for a start time stored as a Unix time stamp
\* (the form without the 'Z'): only KeyError is turned into None.
get_exp_start_time(self, c) ==
    LET Answer(s1, v) ==
            IF v.kind = "return" THEN Ok(s1, Some(v.val))
            ELSE IF v.exc = "KeyError" THEN Ok(s1, None)
            ELSE Err(s1, v.exc)
        Loaded(s1) == Answer(s1, KeyAttr(s1, c, "tracking_id", "exp_start_time"))
    IN Loaded(LoadMetadata(self, c))

\* Fast5File.get_sample_frequency: any Exception is turned into None.
get_sample_frequency(self, c) ==
    LET Answer(s1, v) == IF v.kind = "return" THEN Ok(s1, Some(v.val)) ELSE Ok(s1, None)
        Loaded(s1) == Answer(s1, KeyAttr(s1, c, "context_tags", "sample_frequency"))
    IN Loaded(LoadMetadata(self, c))

\* Fast5File.get_script_name: after _get_metadata it assigns have_metdata, a
\* new attribute, and have_metadata stays False; any Exception is turned into
\* None.
get_script_name(self, c) ==
    LET Answer(s1, v) == IF v.kind = "return" THEN Ok(s1, Some(v.val)) ELSE Ok(s1, None)
        Loaded(s1) == Answer(s1, KeyAttr(s1, c, "tracking_id", "exp_script_name"))
    IN Loaded(IF self.have_metadata = FALSE
              THEN [_get_metadata(self, c) EXCEPT !.have_metdata = TRUE]
              ELSE self)

\* ------------------------------------------------------ Fast5File: timing

RECURSIVE GCD(_, _)
GCD(a, b) == IF b = 0 THEN a ELSE GCD(b, a % b)

\* The number n / d (d > 0), in lowest terms: what Python's true division gives.
Rat(n, d) == [num |-> n \div GCD(n, d), den |-> d \div GCD(n, d)]

\* i + q for an int i
RatAddInt(i, q) == Rat(i * q.den + q.num, q.den)

\* Fast5File.find_read_number_block_fixed_raw: the path of the one read under
\* Raw/Reads, None without Raw/Reads, and the exit of hdf_internal_error.
find_read_number_block_fixed_raw(self, c) ==
    LET Found(raw_reads) ==
            IF raw_reads.kind = "raise" THEN Err(self, raw_reads.exc)
            ELSE IF raw_reads.val = None THEN Ok(self, None)
            ELSE LET reads == c.nodes[RAW_READS].keys
                 IN IF Len(reads) = 0 THEN Die(self)
                    ELSE IF Len(reads) > 1 THEN Die(self)
                    ELSE IF H5Get(self, c, RawReadPath(reads[1])).val = None THEN Die(self)
                    ELSE Ok(self, Some(RawReadPath(reads[1])))
    IN Found(H5Get(self, c, RAW_READS))

\* Fast5File.find_event_timing_block: the path is built before the try, so the
\* KeyError of the table and the TypeError of % leave the method; inside the
\* try every error gives None.  Returns the 'Events' node of the template group.
find_event_timing_block(self, c) ==
    LET Looked(node) == IF node.kind = "raise" THEN Ok(self, None) ELSE Ok(self, node.val.events)
        Formatted(path) ==
            IF path.kind = "raise" THEN Err(self, path.exc)
            ELSE Looked(H5Index(self, c, path.val))
        Templated(tpl) ==
            IF tpl.kind = "raise" THEN Err(self, tpl.exc)
            ELSE Formatted(PercentFormat(tpl.val, self.group))
    IN Templated(PathOf(self.version, "template"))

\* The try of get_duration on the Raw/Reads node: the object after it and the
\* value returned, None when an exception was logged and passed over (the
\* KeyError of the attribute, before the frequency is asked for; the TypeError
\* of a frequency of None; the ZeroDivisionError).
RawDuration(self, c, path) ==
    LET dur == c.nodes[path].attrs.duration
        Divide(f) ==
            IF dur = None THEN [self |-> self, val |-> None]
            ELSE IF f.val = None \/ f.val = Some(0) THEN [self |-> f.self, val |-> None]
            ELSE [self |-> f.self, val |-> Some(Rat(dur[1], f.val[1]))]
    IN Divide(get_sample_frequency(self, c))

\* Fast5File.get_duration
get_duration(self, c) ==
    LET Fallback(s, ev) ==
            IF ev.kind # "return" THEN ev
            ELSE IF ev.val = None THEN Ok(s, None)
            ELSE IF ev.val[1].attrs.duration = None THEN Err(s, "KeyError")
            ELSE Ok(s, Some(Rat(ev.val[1].attrs.duration[1], 1)))
        AfterRaw(raw) ==
            IF raw.val # None THEN Ok(raw.self, raw.val)
            ELSE Fallback(raw.self, find_event_timing_block(raw.self, c))
        AfterNode(node) ==
            IF node.kind # "return" THEN node
            ELSE AfterRaw(IF node.val # None
                          THEN RawDuration(self, c, node.val[1])
                          ELSE [self |-> self, val |-> None])
    IN AfterNode(find_read_number_block_fixed_raw(self, c))

\* The try of get_start_time on the Raw/Reads node: int(None) is a TypeError,
\* a frequency of 0 a ZeroDivisionError, a missing attribute a KeyError; all are
\* logged and passed over.  int() cuts the quotient of the two counts.
RawStartTime(self, c, path, exp_start_time) ==
    LET start == c.nodes[path].attrs.start_time
        Divide(f) ==
            IF f.val = None \/ exp_start_time = None \/ start = None \/ f.val = Some(0)
            THEN [self |-> f.self, val |-> None]
            ELSE [self |-> f.self, val |-> Some(exp_start_time[1] + (start[1] \div f.val[1]))]
    IN Divide(get_sample_frequency(self, c))

\* Fast5File.get_start_time
get_start_time(self, c) ==
    LET Fallback(s, exp, ev) ==
            IF ev.kind # "return" THEN ev
            ELSE IF ev.val = None THEN Ok(s, None)
            ELSE IF exp.val = None THEN Err(s, "TypeError")
            ELSE IF ev.val[1].attrs.start_time = None THEN Err(s, "KeyError")
            ELSE Ok(s, Some(exp.val[1] + ev.val[1].attrs.start_time[1]))
        AfterRaw(exp, raw) ==
            IF raw.val # None THEN Ok(raw.self, raw.val)
            ELSE Fallback(raw.self, exp, find_event_timing_block(raw.self, c))
        AfterNode(exp, node) ==
            IF node.kind # "return" THEN node
            ELSE AfterRaw(exp, IF node.val # None
                               THEN RawStartTime(exp.self, c, node.val[1], exp.val)
                               ELSE [self |-> exp.self, val |-> None])
        AfterExp(exp) ==
            IF exp.kind # "return" THEN exp
            ELSE AfterNode(exp, find_read_number_block_fixed_raw(exp.self, c))
    IN AfterExp(get_exp_start_time(self, c))

\* Fast5File.get_end_time: `if start_time and (duration is not None)` takes a
\* start time of 0 as false.
get_end_time(self, c) ==
    LET Sum(start, dur) ==
            IF dur.kind # "return" THEN dur
            ELSE IF (start.val # None /\ start.val # Some(0)) /\ dur.val # None
            THEN Ok(dur.self, Some(RatAddInt(start.val[1], dur.val[1])))
            ELSE Ok(dur.self, None)
        AfterStart(start) ==
            IF start.kind # "return" THEN start
            ELSE Sum(start, get_duration(start.self, c))
        AfterExp(exp) ==
            IF exp.kind # "return" THEN exp
            ELSE AfterStart(get_start_time(exp.self, c))
    IN AfterExp(get_exp_start_time(self, c))

\* ------------------------------------------------------ Fast5File: sequences

\* extract_data on the node found at a strand's path, and formats.Fastq on the
\* text: the record, reduced to the error rate it estimates; KeyError for a
\* group without 'Fastq'.
FastqAt(self, c, strand) ==
    LET path == StrFormat(fastq_paths[self.version][strand], self.group)
        node == H5Index(self, c, path)
    IN IF node.kind = "raise" THEN node
       ELSE IF node.val.fastq = None THEN Raise("KeyError")
       ELSE Return(node.val.fastq)

\* Fast5File._extract_fastqs_from_fast5: a strand whose extraction raises is
\* logged and left out.
_extract_fastqs_from_fast5(self, c) ==
    [self EXCEPT !.fastqs =
        [s \in Strands |->
            IF s \in DOMAIN fastq_paths[self.version] /\ FastqAt(self, c, s).kind = "return"
            THEN FastqAt(self, c, s).val
            ELSE self.fastqs[s]]]

LoadFastqs(self, c) ==
    IF self.have_fastqs = FALSE
    THEN [_extract_fastqs_from_fast5(self, c) EXCEPT !.have_fastqs = TRUE]
    ELSE self

\* Fast5File.get_fastq
get_fastq(self, c) ==
    LET s1 == LoadFastqs(self, c)
    IN IF \A s \in Strands : s1.fastqs[s] = None THEN Ok(s1, None)
       ELSE IF s1.fastqs["twodirections"] # None THEN Ok(s1, s1.fastqs["twodirections"])
       ELSE IF s1.fastqs["template"] # None THEN Ok(s1, s1.fastqs["template"])
       ELSE IF s1.fastqs["complement"] # None THEN Ok(s1, s1.fastqs["complement"])
       ELSE Ok(s1, None)

get_best_type_strict(self, c) ==
    IF self.fastqs["twodirections"] # None THEN Ok(self, Some("twodirections"))
    ELSE LET fwd == self.fastqs["template"] # None
             rev == self.fastqs["complement"] # None
         IN IF fwd /\ ~rev THEN Ok(self, Some("template"))
            ELSE IF rev /\ ~fwd THEN Ok(self, Some("complement"))
            ELSE IF ~fwd THEN Ok(self, None)
            ELSE IF self.fastqs["template"][1] < self.fastqs["complement"][1]
            THEN Ok(self, Some("template"))
            ELSE Ok(self, Some("complement"))

\* Fast5File.get_best_type: with neither strand self.fastqs['template'] is a
\* KeyError, which the `except Exception` turns into None.
get_best_type(self, c) ==
    IF self.fastqs["twodirections"] # None THEN Ok(self, Some("twodirections"))
    ELSE LET fwd == self.fastqs["template"] # None
             rev == self.fastqs["complement"] # None
         IN IF fwd /\ ~rev THEN Ok(self, Some("template"))
            ELSE IF rev /\ ~fwd THEN Ok(self, Some("complement"))
            ELSE IF ~fwd THEN Ok(self, None)
            ELSE IF self.fastqs["template"][1] <= self.fastqs["complement"][1]
            THEN Ok(self, Some("template"))
            ELSE Ok(self, Some("complement"))

\* extract_data on the node at a strand's path as _extract_fastas_from_fast5
\* builds it, with `h5path % self.group`: the templates of fastq_paths hold
\* '{:03d}' or no placeholder at all, so the % raises TypeError.
FastaAt(self, c, strand) ==
    LET Lookup(path) ==
            IF path.kind = "raise" THEN path
            ELSE LET node == H5Index(self, c, path.val)
                 IN IF node.kind = "raise" THEN node
                    ELSE IF node.val.fastq = None THEN Raise("KeyError")
                    ELSE Return(node.val.fastq)
    IN Lookup(PercentFormat(fastq_paths[self.version][strand], self.group))

\* Fast5File._extract_fastas_from_fast5: a strand whose extraction raises is
\* logged and left out.
_extract_fastas_from_fast5(self, c) ==
    [self EXCEPT !.fastas =
        [s \in Strands |->
            IF s \in DOMAIN fastq_paths[self.version] /\ FastaAt(self, c, s).kind = "return"
            THEN FastaAt(self, c, s).val
            ELSE self.fastas[s]]]

LoadFastas(self, c) ==
    IF self.have_fastas = FALSE
    THEN [_extract_fastas_from_fast5(self, c) EXCEPT !.have_fastas = TRUE]
    ELSE self

\* Fast5File.has_2D
has_2D(self, c) ==
    LET Answer(s1) == Ok(s1, Some(s1.fastas["twodirections"] # None))
    IN Answer(LoadFastas(self, c))

\* ------------------------------------------------------ Fast5File: events

\* len(self.hdf5file[fastq_paths[self.version][strand] % self.group]['Events'][()]):
\* the number of rows, or the first error on the way.
EventRows(self, c, strand) ==
    IF ~self.is_open THEN Raise("AttributeError")
    ELSE LET tpl == PathOf(self.version, strand)
         IN IF tpl.kind = "raise" THEN tpl
            ELSE LET path == PercentFormat(tpl.val, self.group)
                 IN IF path.kind = "raise" THEN path
                    ELSE LET node == H5Index(self, c, path.val)
                         IN IF node.kind = "raise" THEN node
                            ELSE IF node.val.events = None THEN Raise("KeyError")
                            ELSE Return(node.val.events[1].rows)

\* [Event(x) for x in rows]
Events(n) == [i \in 1..n |-> i]

\* Fast5File._extract_template_events
_extract_template_events(self, c) ==
    LET rows == EventRows(self, c, "template")
    IN [self EXCEPT !.template_events = IF rows.kind = "return" THEN Events(rows.val) ELSE <<>>]

\* Fast5File.get_template_events
get_template_events(self, c) ==
    LET s1 == IF self.have_templates = FALSE
              THEN [_extract_template_events(self, c) EXCEPT !.have_templates = TRUE]
              ELSE self
    IN Ok(s1, Some(s1.template_events))

\* Fast5File._extract_complement_events
_extract_complement_events(self, c) ==
    LET rows == EventRows(self, c, "complement")
    IN [self EXCEPT !.complement_events = IF rows.kind = "return" THEN Events(rows.val) ELSE <<>>]

\* Fast5File.get_complement_events
get_complement_events(self, c) ==
    LET s1 == IF self.have_complements = FALSE
              THEN [_extract_complement_events(self, c) EXCEPT !.have_complements = TRUE]
              ELSE self
    IN Ok(s1, Some(s1.complement_events))

\* The rows of every read under the pre-basecalled root, added up.
RECURSIVE SumRows(_, _, _)
SumRows(c, root, keys) ==
    IF keys = <<>> THEN 0
    ELSE c.nodes[root \o <<Head(keys)>>].events[1].rows + SumRows(c, root, Tail(keys))

\* Fast5File._extract_pre_basecalled_events: no try around it (it is commented
\* out), so the AttributeError of a closed handle, the KeyError of the table
\* and the KeyError of h5py leave the method.
_extract_pre_basecalled_events(self, c) ==
    IF ~self.is_open THEN Err(self, "AttributeError")
    ELSE LET path == PathOf(self.version, "pre_basecalled")
         IN IF path.kind = "raise" THEN Err(self, path.exc)
            ELSE LET table == H5Index(self, c, path.val)
                 IN IF table.kind = "raise" THEN Err(self, table.exc)
                    ELSE IF \E i \in DOMAIN table.val.keys :
                                c.nodes[path.val \o <<table.val.keys[i]>>].events = None
                    THEN Err(self, "KeyError")
                    ELSE Ok([self EXCEPT !.pre_basecalled_events =
                                Events(SumRows(c, path.val, table.val.keys))], None)

\* Fast5File.get_pre_basecalled_events
get_pre_basecalled_events(self, c) ==
    IF self.have_pre_basecalled = FALSE
    THEN LET e == _extract_pre_basecalled_events(self, c)
         IN IF e.kind # "return" THEN e
            ELSE Ok([e.self EXCEPT !.have_pre_basecalled = TRUE],
                    Some(e.self.pre_basecalled_events))
    ELSE Ok(self, Some(self.pre_basecalled_events))

\* Fast5File.get_template_events_count
get_template_events_count(self, c) ==
    LET rows == EventRows(self, c, "template")
    IN Ok(self, Some(IF rows.kind = "return" THEN rows.val ELSE 0))

\* Fast5File.get_complement_events_count
get_complement_events_count(self, c) ==
    LET rows == EventRows(self, c, "complement")
    IN Ok(self, Some(IF rows.kind = "return" THEN rows.val ELSE 0))

\* Fast5File.is_high_quality
is_high_quality(self, c) ==
    Ok(self, Some(get_complement_events_count(self, c).val[1]
                    >= get_template_events_count(self, c).val[1]))

\* ------------------------------------------------------ Fast5File: the containers

Opt(S) == {None} \cup {Some(x) : x \in S}

\* Every combination of basecall groups, and nothing else in the file.
VersionFiles == {[Bare EXCEPT !.basecalls = b] : b \in SUBSET BasecallKinds}

\* One set of basecall groups for each version an open file can have.
OneOfEach == {{"Basecall_2D_"}, {"Basecall_1D_"}, {"Basecall_RNN_1D_"}, {}}

\* Files with sequences: each strand's FASTQ is absent or estimates some error rate.
FastqFiles ==
    {[Bare EXCEPT !.basecalls = b, !.fq = fq] :
        b \in OneOfEach,
        fq \in [SeqStrands -> Opt(0..MaxRate)]}

\* Files with event tables in the template and the complement group, and with
\* reads under the pre-basecalled root.
EventFiles ==
    {[Bare EXCEPT !.basecalls = b, !.tev = t, !.cev = e] :
        b \in OneOfEach,
        t \in {Some([rows |-> n, attrs |-> NoAttrs]) : n \in 0..MaxEvents},
        e \in Opt({[rows |-> n, attrs |-> NoAttrs] : n \in 0..MaxEvents})}
    \cup
    {[Bare EXCEPT !.basecalls = b, !.pre = Some(reads)] :
        b \in OneOfEach, reads \in SeqsUpTo(1..MaxEvents, 2)}

\* Sample counts, frequencies and time stamps the files hold.
Durations == {0, 3}

Offsets == {0, 5}

Epochs == {0, 7}

Frequencies == {0, 2}

ReadAttrs == {[NoAttrs EXCEPT !.duration = d, !.start_time = t] : d \in Opt(Durations), t \in Opt(Offsets)}

\* What a file holds about timing: Raw/Reads with no, one or two reads, the
\* metadata root under either name with the start of the experiment and the
\* sample frequency, and timing attributes on the template group's 'Events'.
RawChoices == {None, Some(<<>>)} \cup {Some(<<a>>) : a \in ReadAttrs}
                \cup {Some(<<a, a>>) : a \in {[NoAttrs EXCEPT !.duration = Some(3), !.start_time = Some(5)]}}

KeyChoices ==
    {[key |-> None, exp |-> None, freq |-> None],
     [key |-> Some("/Key"), exp |-> Some(7), freq |-> Some(2)]}
    \cup {[key |-> Some("/UniqueGlobalKey"), exp |-> e, freq |-> f] :
            e \in Opt(Epochs), f \in Opt(Frequencies)}

TimingFiles ==
    {[Bare EXCEPT !.basecalls = b, !.raw = r, !.key = k.key, !.exp = k.exp, !.freq = k.freq,
                  !.tev = t] :
        b \in {{"Basecall_2D_"}, {}}, r \in RawChoices, k \in KeyChoices,
        t \in {None, Some([rows |-> 1, attrs |-> [NoAttrs EXCEPT !.duration = Some(3), !.start_time = Some(5)]])}}

\* ------------------------------------------------------ Fast5File: the actions

\* A handle on each file, with the group index the file stores its basecalls
\* under; on the files that differ in their basecall groups alone, with every
\* group index.
Init ==
    /\ pc = "run"
    /\ \E g \in 0..MaxGroup, d \in VersionFiles \cup FastqFiles \cup EventFiles \cup TimingFiles,
          openable \in BOOLEAN :
          /\ d \in VersionFiles \/ g = StoredGroup
          /\ openable \/ d = Bare
          /\ container = Container(openable, FALSE, d)
          /\ handle = Fast5File__init__(FilePath, g, container).val
    /\ ret = NoRet
    /\ setpc = "off"
    /\ fileset = <<>>
    /\ fset = NewFast5FileSet(<<>>, 0)
    /\ tmpdir = Dir0
    /\ tarEntries = <<>>
    /\ dirTree = EmptyDir
    /\ produced = <<>>
    /\ signalled = FALSE
    /\ setret = NoCall
    /\ peer = NoPeer

\* One call on the handle: the object after it, and what the caller sees.
Call(op, r) ==
    /\ pc = "run"
    /\ handle' = r.self
    /\ ret' = [op |-> op, kind |-> r.kind, exc |-> r.exc, val |-> r.val]
    /\ pc' = IF r.kind = "exit" THEN "exited" ELSE pc
    /\ UNCHANGED <<container, setVars, peerVars>>

\* handle.guess_version(), once more: it reads the container and assigns nothing.
GuessVersion ==
    LET Again(v) ==
            IF v.kind = "return" THEN Ok(handle, Some(v.val)) ELSE Err(handle, v.exc)
    IN Call("guess_version", Again(guess_version(handle, container)))

GetFastq == Call("get_fastq", get_fastq(handle, container))

GetBestType == Call("get_best_type", get_best_type(handle, container))

GetTemplateEvents == Call("get_template_events", get_template_events(handle, container))

GetComplementEvents == Call("get_complement_events", get_complement_events(handle, container))

GetPreBasecalledEvents ==
    Call("get_pre_basecalled_events", get_pre_basecalled_events(handle, container))

GetTemplateEventsCount ==
    Call("get_template_events_count", get_template_events_count(handle, container))

GetComplementEventsCount ==
    Call("get_complement_events_count", get_complement_events_count(handle, container))

IsHighQuality == Call("is_high_quality", is_high_quality(handle, container))

GetExpStartTime == Call("get_exp_start_time", get_exp_start_time(handle, container))

GetSampleFrequency == Call("get_sample_frequency", get_sample_frequency(handle, container))

GetDuration == Call("get_duration", get_duration(handle, container))

GetStartTime == Call("get_start_time", get_start_time(handle, container))

GetEndTime == Call("get_end_time", get_end_time(handle, container))

Has2D == Call("has_2D", has_2D(handle, container))

GetScriptName ==
    /\ handle.metadata_lookups < MaxLookups
    /\ Call("get_script_name", get_script_name(handle, container))

Next ==
    \/ GuessVersion
    \/ GetFastq
    \/ GetBestType
    \/ GetTemplateEvents
    \/ GetComplementEvents
    \/ GetPreBasecalledEvents
    \/ GetTemplateEventsCount
    \/ GetComplementEventsCount
    \/ IsHighQuality
    \/ GetExpStartTime
    \/ GetSampleFrequency
    \/ GetDuration
    \/ GetStartTime
    \/ GetEndTime

Spec == Init /\ [][Next]_vars

\* The calls that fill the handle's lazily loaded parts: the FASTQ and the FASTA
\* mapping and the metadata root.
NextLazy ==
    \/ GetFastq
    \/ Has2D
    \/ GetExpStartTime
    \/ GetSampleFrequency
    \/ GetScriptName

SpecLazy == Init /\ [][NextLazy]_vars

\* ------------------------------------------------------ claims on Fast5File

\* Whether the container holds the template group of a basecall kind at the
\* handle's group index.
HasTemplateGroup(kind) ==
    (<<"/Analyses/", kind>> \o Fmt03d(handle.group) \o <<"/BaseCalled_template">>)
        \in DOMAIN container.nodes

ProbeOrderVersion ==
    IF HasTemplateGroup("Basecall_2D_") THEN "classic"
    ELSE IF HasTemplateGroup("Basecall_1D_") THEN "metrichor1.16"
    ELSE IF HasTemplateGroup("Basecall_RNN_1D_") THEN "r9rnn"
    ELSE "prebasecalled"

\* C4: on a container that opened, the version found at construction is the
\* first hit of the probe order classic, metrichor1.16, r9rnn, else
\* prebasecalled (so classic when the 2D and the 1D group both exist), and
\* guess_version called again returns that same version.
C4_ProbeOrder ==
    (pc # "off" /\ handle.is_open) =>
        /\ handle.version = ProbeOrderVersion
        /\ ret.op = "guess_version" => (ret.kind = "return" /\ ret.val = Some(handle.version))

\* A container with the classic and the 1-D group, probed a second time.
C4_Witness ==
    /\ handle.is_open
    /\ HasTemplateGroup("Basecall_2D_")
    /\ HasTemplateGroup("Basecall_1D_")
    /\ ret.op = "guess_version"
    /\ ret.val = Some("classic")

ListOps == {"get_template_events", "get_complement_events", "get_pre_basecalled_events"}

CountOps == {"get_template_events_count", "get_complement_events_count"}

AbsentOps ==
    {"get_fastq", "get_best_type", "get_exp_start_time", "get_sample_frequency",
     "get_duration", "get_start_time", "get_end_time"}

\* The call returned, and what it returned is empty or absent: an empty list,
\* a count of 0, None.
ReturnedEmpty ==
    /\ ret.kind = "return"
    /\ ret.op \in ListOps => ret.val = Some(<<>>)
    /\ ret.op \in CountOps => ret.val = Some(0)
    /\ ret.op \in AbsentOps => ret.val = None

\* C5: a handle whose container could not be opened has version 'closed' for
\* good, and every sequence, event, metadata and timing query on it returns
\* an empty or absent result: none raises, none ends the process.
C5_ClosedHandle ==
    (pc # "off" /\ ~handle.is_open) =>
        /\ handle.version = "closed"
        /\ ret.op \in ListOps \cup CountOps \cup AbsentOps => ReturnedEmpty

\* The strand whose path an accessor needs.
StrandOf(op) ==
    CASE op \in {"get_template_events", "get_template_events_count"} -> "template"
      [] op \in {"get_complement_events", "get_complement_events_count"} -> "complement"
      [] op = "get_pre_basecalled_events" -> "pre_basecalled"
      [] op \in {"get_duration", "get_start_time"} -> "template"

PathOps ==
    {"get_template_events", "get_template_events_count", "get_complement_events",
     "get_complement_events_count", "get_pre_basecalled_events", "get_duration",
     "get_start_time"}

HasRawReads == RAW_READS \in DOMAIN container.nodes

\* C6: when fastq_paths has no entry for the version of an open handle and
\* the strand an accessor needs (the timing accessors need the template path once there
\* is no Raw/Reads group), the accessor returns an empty or absent result and
\* does not raise.
C6_MissingPathIsAbsent ==
    (/\ ret.op \in PathOps
     /\ handle.is_open
     /\ StrandOf(ret.op) \notin DOMAIN fastq_paths[handle.version]
     /\ ret.op \in {"get_duration", "get_start_time"} => ~HasRawReads)
    => ReturnedEmpty

\* C7: get_end_time returns start_time + duration whenever get_start_time and
\* get_duration both return a value that is not None, zero included, and
\* returns None only when one of the two is None.
C7_EndTime ==
    (pc = "run" /\ ret.op = "get_end_time" /\ ret.kind = "return") =>
        LET start == get_start_time(handle, container).val
            dur == get_duration(handle, container).val
        IN /\ (start # None /\ dur # None) => ret.val = Some(RatAddInt(start[1], dur[1]))
           /\ ret.val = None => (start = None \/ dur = None)

RawReadCount == Len(container.nodes[RAW_READS].keys)

TheRawRead == container.nodes[RawReadPath(container.nodes[RAW_READS].keys[1])].attrs

\* The attribute of the metadata root's sub-group, None when root, group or
\* attribute is not there.
Metadata(group, attr) ==
    LET roots == {r \in {<<"/UniqueGlobalKey">>, <<"/Key">>} : r \in DOMAIN container.nodes}
        root == IF <<"/UniqueGlobalKey">> \in roots THEN <<"/UniqueGlobalKey">> ELSE <<"/Key">>
    IN IF roots = {} THEN None ELSE container.nodes[root \o <<"/", group>>].attrs[attr]

\* C8: with a Raw/Reads group, get_duration and get_start_time end the process
\* with the structural error when the group has no child or more than one;
\* with exactly one child (that has the attribute, in a file whose metadata
\* gives the frequency and the start of the experiment) get_duration returns
\* the child's duration divided by the sample frequency and get_start_time the
\* start of the experiment plus the child's start offset divided by it.
C8_RawReads ==
    (ret.op \in {"get_duration", "get_start_time"} /\ handle.is_open /\ HasRawReads) =>
        LET freq == Metadata("context_tags", "sample_frequency")
            exp == Metadata("tracking_id", "exp_start_time")
        IN /\ RawReadCount # 1 => ret.kind = "exit"
           /\ (/\ RawReadCount = 1
               /\ ret.op = "get_duration"
               /\ TheRawRead.duration # None
               /\ freq \notin {None, Some(0)})
              => (ret.kind = "return" /\ ret.val = Some(Rat(TheRawRead.duration[1], freq[1])))
           /\ (/\ RawReadCount = 1
               /\ ret.op = "get_start_time"
               /\ TheRawRead.start_time # None
               /\ exp # None
               /\ freq \notin {None, Some(0)})
              => (ret.kind = "return"
                  /\ ret.val = Some(exp[1] + (TheRawRead.start_time[1] \div freq[1])))

\* The strand the claim selects among the extracted FASTQ records.
BestOf(fastqs) ==
    IF fastqs["twodirections"] # None THEN Some("twodirections")
    ELSE IF fastqs["template"] # None /\ fastqs["complement"] = None THEN Some("template")
    ELSE IF fastqs["complement"] # None /\ fastqs["template"] = None THEN Some("complement")
    ELSE IF fastqs["complement"] # None /\ fastqs["template"] # None
    THEN (IF fastqs["complement"][1] < fastqs["template"][1]
          THEN Some("complement") ELSE Some("template"))
    ELSE None

\* C9: get_best_type returns 'twodirections' when that record exists, else the
\* only single strand there is, else of the two the one with the lower
\* estimated error rate, 'template' on a tie; with no record to compare it
\* returns None and does not raise.
C9_BestType ==
    ret.op = "get_best_type" =>
        (ret.kind = "return" /\ ret.val = BestOf(handle.fastqs))

\* Both single strands extracted with the same error rate, and 'template' returned.
C9_Witness ==
    /\ ret.op = "get_best_type"
    /\ handle.fastqs["twodirections"] = None
    /\ handle.fastqs["template"] # None
    /\ handle.fastqs["template"] = handle.fastqs["complement"]
    /\ ret.val = Some("template")

\* The rows of the 'Events' table the container stores for a strand of the
\* handle's version, 0 when it stores none.
StoredRows(strand) ==
    IF strand \notin DOMAIN fastq_paths[handle.version] THEN 0
    ELSE LET path == StrFormat(fastq_paths[handle.version][strand], handle.group)
         IN IF path \notin DOMAIN container.nodes THEN 0
            ELSE IF container.nodes[path].events = None THEN 0
            ELSE container.nodes[path].events[1].rows

\* C10: is_high_quality returns true exactly when the container stores at
\* least as many event rows for the complement strand as for the template
\* strand.
C10_HighQuality ==
    (ret.op = "is_high_quality" /\ handle.is_open) =>
        (ret.kind = "return"
         /\ ret.val = Some(StoredRows("complement") >= StoredRows("template")))

\* Whether the container holds a sequence at the path fastq_paths gives for a
\* strand of the handle's version, at the handle's group index.
HoldsSequence(strand) ==
    /\ strand \in DOMAIN fastq_paths[handle.version]
    /\ LET path == StrFormat(fastq_paths[handle.version][strand], handle.group)
       IN /\ path \in DOMAIN container.nodes
          /\ container.nodes[path].fastq # None

\* C12: has_2D returns true exactly when the open container holds a
\* two-directions sequence at the path of the detected version and the group
\* index, and the FASTA mapping then has a record for exactly the strands for
\* which _extract_fastqs_from_fast5 fills a FASTQ record.
C12_FastaMirrorsFastq ==
    (ret.op = "has_2D" /\ handle.is_open) =>
        /\ ret.kind = "return"
        /\ ret.val = Some(HoldsSequence("twodirections"))
        /\ \A s \in Strands :
              (handle.fastas[s] # None)
                  <=> (_extract_fastqs_from_fast5(handle, container).fastqs[s] # None)

\* C14: whatever metadata accessors were called on a handle, and however
\* often, _get_metadata has run at most once.
C14_MetadataOnce == pc = "run" => handle.metadata_lookups <= 1

\* The 'Events' table under the template path of the handle's version: its
\* attributes, None when the table is not there.
EventTimingAttrs ==
    LET path == StrFormat(fastq_paths[handle.version]["template"], handle.group)
    IN IF path \notin DOMAIN container.nodes THEN None
       ELSE IF container.nodes[path].events = None THEN None
       ELSE Some(container.nodes[path].events[1].attrs)

\* C15: on an open container without Raw/Reads, of a version that has a
\* template path, get_duration and get_start_time do not raise: they return
\* None when the template's 'Events' table is not there, and else the table's
\* duration, respectively the start of the experiment plus the table's start
\* offset.
C15_TimingFallback ==
    (/\ ret.op \in {"get_duration", "get_start_time"}
     /\ handle.is_open
     /\ ~HasRawReads
     /\ "template" \in DOMAIN fastq_paths[handle.version])
    => /\ ret.kind = "return"
       /\ EventTimingAttrs = None => ret.val = None
       /\ (/\ ret.op = "get_duration"
           /\ EventTimingAttrs # None
           /\ EventTimingAttrs[1].duration # None)
          => ret.val = EventTimingAttrs[1].duration
       /\ (/\ ret.op = "get_start_time"
           /\ EventTimingAttrs # None
           /\ EventTimingAttrs[1].start_time # None
           /\ Metadata("tracking_id", "exp_start_time") # None)
          => ret.val = Some(Metadata("tracking_id", "exp_start_time")[1]
                              + EventTimingAttrs[1].start_time[1])

====
